---- MODULE Spec2Model ----
(***************************************************************************)
(* puri-platformer: the per-frame systems of main.rs (move_player,         *)
(* player_jump, player_fall, ground_detection, animate_sprite) and the     *)
(* pure overlap test check_hit.                                            *)
(*                                                                         *)
(* Numbers.  The program computes in f32.  The model computes in fixed     *)
(* point with one decimal digit: the integer n stands for the value n/10   *)
(* (a length of 0.1 world units, a time of 0.1 s).  Fixed(k) is the        *)
(* literal k., FMul and FDiv are * and /.  All the values the model draws  *)
(* are chosen so that every product and quotient the code forms is exact.  *)
(*                                                                         *)
(* Scheduling.  The code uses Input<KeyCode> and TextureAtlasSprite, i.e.  *)
(* a Bevy release before automatic sync points: the Commands a system      *)
(* queues are applied when the Update schedule ends, in the order of the   *)
(* systems.  (move_player, player_jump, player_fall, ground_detection) is  *)
(* chained; animate_sprite is in the same schedule without any ordering.   *)
(***************************************************************************)
EXTENDS Integers, Sequences, FiniteSets

VARIABLES
    pc,          \* "tick": between two frames; else the chained system to run next
    animDone,    \* animate_sprite has run in the current frame
    ticks,       \* frames completed
    dt,          \* Res<Time>: time.delta_seconds() of the current frame
    input,       \* Res<Input<KeyCode>> of the current frame
    px, py,      \* Player: Transform.translation.x / .y
    jump,        \* Player: the Jump component, [present, energy]
    grounded,    \* Player: Grounded.0
    last,        \* ground_detection: Local<Transform>, [x, y]
    index,       \* Player: TextureAtlasSprite.index
    frame_time,  \* Player: FrameTime.0
    obstacles,   \* the entities with a HitBox and no Player: [offset, hitbox]
    commands,    \* the Commands queued in the current frame, in system order
    prev,        \* history: the Player as the current frame found it
    hist,        \* history: the systems that acted on the Player in the current
                 \* frame, and of the current jump the y it began at and how
                 \* Jump was held during it
    probe        \* the inputs and result of one call of check_hit (SpecHit), or one
                 \* animated entity (SpecAnim)

vars == << pc, animDone, ticks, dt, input, px, py, jump, grounded, last,
           index, frame_time, obstacles, commands, prev, hist, probe >>

----------------------------------------------------------------------------
(* Bounds *)

\* frames simulated
MaxTicks == 4
\* check_hit inputs: coordinates range over -MaxCoord..MaxCoord
MaxCoord == 3
\* check_hit inputs: box sizes range over the even numbers 0..2*MaxHalf
MaxHalf == 2
\* time.delta_seconds() of a frame, in tenths of a second
Deltas == {0, 1, 5}

----------------------------------------------------------------------------
(* f32 arithmetic, in fixed point *)

Fixed(n) == n * 10

One == Fixed(1)

FMul(a, b) == (a * b) \div One

FDiv(a, b) == (a * One) \div b

\* f32::min
Min(a, b) == IF a <= b THEN a ELSE b

\* `as usize` of a non-negative f32
AsUsize(a) == a \div One

----------------------------------------------------------------------------
(* Constants of the program *)

MOVE_SPEED == 100

FALL_SPEED == 98

\* Jump(100.) in move_player
JUMP_ENERGY == 100

\* SpriteAnimation { len: 6, frame_time: 1. / 5. }
ANIM_LEN == 6

ANIM_FPS == 5

SpriteAnimation == [len |-> ANIM_LEN, frame_time |-> FDiv(Fixed(1), Fixed(ANIM_FPS))]

\* HitBox(Vec2::new(18., 32.)) of the Player
PlayerHitBox == [x |-> Fixed(18), y |-> Fixed(32)]

\* spawn_map: one entity at NEG_Y * 16. with HitBox(200., 5.)
spawn_map == << [offset |-> [x |-> 0, y |-> Fixed(0 - 16)],
                 hitbox |-> [x |-> Fixed(200), y |-> Fixed(5)]] >>

NoJump == [present |-> FALSE, energy |-> 0]

Keys == [just_jump : BOOLEAN, jump : BOOLEAN, left : BOOLEAN, right : BOOLEAN]

NoKeys == [just_jump |-> FALSE, jump |-> FALSE, left |-> FALSE, right |-> FALSE]

NoHist == [acted |-> {}, y0 |-> 0, held |-> "-"]

NoProbe == [hitbox |-> [x |-> 0, y |-> 0], offset |-> [x |-> 0, y |-> 0],
            other_hitbox |-> [x |-> 0, y |-> 0], other_offset |-> [x |-> 0, y |-> 0],
            called |-> FALSE, result |-> FALSE]

----------------------------------------------------------------------------
(* check_hit *)

\* Mutant of check_hit: edge contact counts as a hit (>= and <= for > and <).
check_hit_Closed(hitbox, offset, other_hitbox, other_offset) ==
    LET h_size == FDiv(hitbox.y, Fixed(2))
        w_size == FDiv(hitbox.x, Fixed(2))
        oh_size == FDiv(other_hitbox.y, Fixed(2))
        ow_size == FDiv(other_hitbox.x, Fixed(2))
    IN  /\ offset.x + w_size >= other_offset.x - ow_size
        /\ offset.x - w_size =< other_offset.x + ow_size
        /\ offset.y + h_size >= other_offset.y - oh_size
        /\ offset.y - h_size =< other_offset.y + oh_size

check_hit(hitbox, offset, other_hitbox, other_offset) ==
    LET h_size == FDiv(hitbox.y, Fixed(2))
        w_size == FDiv(hitbox.x, Fixed(2))
        oh_size == FDiv(other_hitbox.y, Fixed(2))
        ow_size == FDiv(other_hitbox.x, Fixed(2))
    IN  /\ offset.x + w_size > other_offset.x - ow_size
        /\ offset.x - w_size < other_offset.x + ow_size
        /\ offset.y + h_size > other_offset.y - oh_size
        /\ offset.y - h_size < other_offset.y + oh_size

----------------------------------------------------------------------------
(* The state after the Startup schedule: spawn_map and spawn_player *)

spawn_player ==
    /\ px = 0
    /\ py = 0
    /\ jump = NoJump
    /\ grounded = TRUE
    /\ index = 0
    /\ frame_time = 0

InitGame ==
    /\ spawn_player
    /\ obstacles = spawn_map
    /\ last = [x |-> 0, y |-> 0]
    /\ pc = "tick"
    /\ animDone = TRUE
    /\ ticks = 0
    /\ dt = 0
    /\ input = NoKeys
    /\ commands = << >>
    /\ prev = [x |-> 0, y |-> 0, jump |-> NoJump, grounded |-> TRUE, index |-> 0,
               frame_time |-> 0]
    /\ hist = NoHist

Init ==
    /\ InitGame
    /\ probe = NoProbe

----------------------------------------------------------------------------
(* One frame: the Update schedule *)

\* Mutant of Chain: player_fall is chained before player_jump.
Chain_FallFirst == << "move_player", "player_fall", "player_jump", "ground_detection" >>

\* (move_player, player_jump, player_fall, ground_detection).chain()
Chain == << "move_player", "player_jump", "player_fall", "ground_detection" >>

\* what runs once system `name` of the chain has completed: the next system of
\* the chain, or the end of the schedule
After(name) ==
    LET i == CHOOSE j \in 1..Len(Chain) : Chain[j] = name
    IN  IF i < Len(Chain) THEN Chain[i + 1] ELSE "apply_deferred"

\* how Jump was held over the frames of a jump: "-" (no frame yet), "all",
\* "none" or "mixed"
HeldOver(sofar, held) ==
    IF sofar = "-" THEN (IF held THEN "all" ELSE "none")
    ELSE IF sofar = "all" /\ held THEN "all"
    ELSE IF sofar = "none" /\ ~held THEN "none"
    ELSE "mixed"

\* A frame starts with a delta of D and keys of K: Time and Input are set for
\* all the systems of the frame.
BeginFrame(D, K) ==
    /\ pc = "tick"
    /\ \E d \in D : dt' = d
    /\ \E k \in K : input' = k
    /\ prev' = [x |-> px, y |-> py, jump |-> jump, grounded |-> grounded,
                index |-> index, frame_time |-> frame_time]
    /\ hist' = IF jump.present THEN [hist EXCEPT !.acted = {}] ELSE NoHist
    /\ pc' = Chain[1]
    /\ animDone' = FALSE
    /\ commands' = << >>
    /\ UNCHANGED << ticks, px, py, jump, grounded, last, index, frame_time,
                    obstacles, probe >>

BeginTick ==
    /\ ticks < MaxTicks
    /\ BeginFrame(Deltas, Keys)

\* Mutant of move_player: the jump edge does not return early, the horizontal
\* movement still happens in that frame.
move_player_NoEarlyReturn ==
    /\ pc = "move_player"
    /\ pc' = After("move_player")
    /\ commands' = IF input.just_jump
                   THEN Append(commands, [op |-> "insert", energy |-> Fixed(JUMP_ENERGY)])
                   ELSE commands
    /\ px' = IF input.left THEN px - FMul(Fixed(MOVE_SPEED), dt)
             ELSE IF input.right THEN px + FMul(Fixed(MOVE_SPEED), dt)
             ELSE px
    /\ UNCHANGED << animDone, ticks, dt, input, py, jump, grounded, last, index,
                    frame_time, obstacles, prev, hist, probe >>

\* Mutant of move_player: MoveRight is tested before MoveLeft.
move_player_RightFirst ==
    /\ pc = "move_player"
    /\ pc' = After("move_player")
    /\ IF input.just_jump
       THEN /\ commands' = Append(commands, [op |-> "insert", energy |-> Fixed(JUMP_ENERGY)])
            /\ px' = px
       ELSE /\ commands' = commands
            /\ px' = IF input.right THEN px + FMul(Fixed(MOVE_SPEED), dt)
                     ELSE IF input.left THEN px - FMul(Fixed(MOVE_SPEED), dt)
                     ELSE px
    /\ UNCHANGED << animDone, ticks, dt, input, py, jump, grounded, last, index,
                    frame_time, obstacles, prev, hist, probe >>

move_player ==
    /\ pc = "move_player"
    /\ pc' = After("move_player")
    /\ IF input.just_jump
       THEN /\ commands' = Append(commands, [op |-> "insert", energy |-> Fixed(JUMP_ENERGY)])
            /\ px' = px
       ELSE /\ commands' = commands
            /\ px' = IF input.left THEN px - FMul(Fixed(MOVE_SPEED), dt)
                     ELSE IF input.right THEN px + FMul(Fixed(MOVE_SPEED), dt)
                     ELSE px
    /\ UNCHANGED << animDone, ticks, dt, input, py, jump, grounded, last, index,
                    frame_time, obstacles, prev, hist, probe >>

\* Mutant of JumpPower: the rise of a frame is not capped by the energy left.
JumpPower_NoMin(energy, d) == FMul(FMul(d, Fixed(FALL_SPEED)), Fixed(2))

\* (dt * FALL_SPEED * 2.).min(jump.0)
JumpPower(energy, d) == Min(FMul(FMul(d, Fixed(FALL_SPEED)), Fixed(2)), energy)

\* Mutant of JumpDrain: the energy drains by jump_power whether or not Jump is held.
JumpDrain_HeldOnly(energy, d, held) == energy - JumpPower(energy, d)

\* jump.0 after the -= of player_jump
JumpDrain(energy, d, held) ==
    energy - (IF held THEN JumpPower(energy, d)
              ELSE FMul(JumpPower(energy, d), Fixed(2)))

\* Mutant of JumpExhausted: < for <=.
JumpExhausted_Strict(energy) == energy < 0

\* the test that queues remove::<Jump>()
JumpExhausted(energy) == energy <= 0

player_jump ==
    /\ pc = "player_jump"
    /\ pc' = After("player_jump")
    /\ IF jump.present
       THEN /\ py' = py + JumpPower(jump.energy, dt)
            /\ jump' = [jump EXCEPT !.energy = JumpDrain(jump.energy, dt, input.jump)]
            /\ commands' = IF JumpExhausted(jump'.energy)
                           THEN Append(commands, [op |-> "remove", energy |-> 0])
                           ELSE commands
            /\ hist' = [hist EXCEPT !.acted = @ \cup {"player_jump"},
                                    !.held = HeldOver(@, input.jump)]
       ELSE UNCHANGED << py, jump, commands, hist >>
    /\ UNCHANGED << animDone, ticks, dt, input, px, grounded, last, index,
                    frame_time, obstacles, prev, probe >>

\* Mutant of FallCandidate: the fall is subtracted on both axes (Vec3::ONE for
\* Vec3::Y).
FallCandidate_BothAxes(x, y, d) ==
    [x |-> x - FMul(Fixed(FALL_SPEED), d), y |-> y - FMul(Fixed(FALL_SPEED), d)]

\* new_pos of player_fall
FallCandidate(x, y, d) == [x |-> x, y |-> y - FMul(Fixed(FALL_SPEED), d)]

\* the loop over the hitboxes: some entity is hit at position pos
HitsAny(pos, others) ==
    \E i \in 1..Len(others) :
        check_hit(PlayerHitBox, pos, others[i].hitbox, others[i].offset)

\* Mutant of FallResult: the candidate is committed whatever it hits.
FallResult_IgnoreHit(x, y, d, others) == FallCandidate(x, y, d)

\* the Player's translation after player_fall
FallResult(x, y, d, others) ==
    IF HitsAny(FallCandidate(x, y, d), others)
    THEN [x |-> x, y |-> y]
    ELSE FallCandidate(x, y, d)

player_fall ==
    /\ pc = "player_fall"
    /\ pc' = After("player_fall")
    /\ IF ~jump.present
       THEN /\ px' = FallResult(px, py, dt, obstacles).x
            /\ py' = FallResult(px, py, dt, obstacles).y
            /\ hist' = [hist EXCEPT !.acted = @ \cup {"player_fall"}]
       ELSE UNCHANGED << px, py, hist >>
    /\ UNCHANGED << animDone, ticks, dt, input, jump, grounded, last, index,
                    frame_time, obstacles, commands, prev, probe >>

\* Mutant of GroundStep: *last is overwritten only when the flag changed.
GroundStep_LazyLast(x, y, g, old) ==
    LET current == IF y = old.y THEN TRUE ELSE FALSE
    IN  [grounded |-> IF current # g THEN current ELSE g,
         last |-> IF current # g THEN [x |-> x, y |-> y] ELSE old]

\* the body of ground_detection: Grounded.0 and *last after it
GroundStep(x, y, g, old) ==
    LET current == IF y = old.y THEN TRUE ELSE FALSE
    IN  [grounded |-> IF current # g THEN current ELSE g,
         last |-> [x |-> x, y |-> y]]

ground_detection ==
    /\ pc = "ground_detection"
    /\ pc' = After("ground_detection")
    /\ grounded' = GroundStep(px, py, grounded, last).grounded
    /\ last' = GroundStep(px, py, grounded, last).last
    /\ UNCHANGED << animDone, ticks, dt, input, px, py, jump, index, frame_time,
                    obstacles, commands, prev, hist, probe >>

\* Mutant of AnimStep: one frame per firing of the timer, not `frames`.
AnimStep_OneFrame(idx, ft, d, anim) ==
    LET acc == ft + d
        sum == idx + 1
    IN  IF acc >= anim.frame_time
        THEN [index |-> IF sum >= anim.len THEN sum % anim.len ELSE sum,
              frame_time |-> acc - anim.frame_time]
        ELSE [index |-> idx, frame_time |-> acc]

\* Mutant of AnimStep: the index wraps when it exceeds len (> for >=).
AnimStep_WrapLate(idx, ft, d, anim) ==
    LET acc == ft + d
        frames == AsUsize(FDiv(acc, anim.frame_time))
        sum == idx + frames
    IN  IF acc >= anim.frame_time
        THEN [index |-> IF sum > anim.len THEN sum % anim.len ELSE sum,
              frame_time |-> acc - anim.frame_time]
        ELSE [index |-> idx, frame_time |-> acc]

\* the body of the loop of animate_sprite, for one entity
AnimStep(idx, ft, d, anim) ==
    LET acc == ft + d
        frames == AsUsize(FDiv(acc, anim.frame_time))
        sum == idx + frames
    IN  IF acc >= anim.frame_time
        THEN [index |-> IF sum >= anim.len THEN sum % anim.len ELSE sum,
              frame_time |-> acc - anim.frame_time]
        ELSE [index |-> idx, frame_time |-> acc]

\* animate_sprite is not ordered against the chain: it runs once per frame,
\* before, between or after the chained systems.
animate_sprite ==
    /\ pc # "tick"
    /\ ~animDone
    /\ animDone' = TRUE
    /\ index' = AnimStep(index, frame_time, dt, SpriteAnimation).index
    /\ frame_time' = AnimStep(index, frame_time, dt, SpriteAnimation).frame_time
    /\ UNCHANGED << pc, ticks, dt, input, px, py, jump, grounded, last, obstacles,
                    commands, prev, hist, probe >>

\* One queued command applied to the Jump component
ApplyCommand(j, c) ==
    IF c.op = "insert" THEN [present |-> TRUE, energy |-> c.energy]
    ELSE NoJump

RECURSIVE ApplyCommands(_, _)
ApplyCommands(j, cs) ==
    IF cs = << >> THEN j
    ELSE ApplyCommands(ApplyCommand(j, Head(cs)), Tail(cs))

\* The schedule ends: the queued Commands are applied, in system order.
apply_deferred ==
    /\ pc = "apply_deferred"
    /\ animDone
    /\ jump' = ApplyCommands(jump, commands)
    /\ hist' = IF jump'.present /\ (\E i \in 1..Len(commands) : commands[i].op = "insert")
               THEN [hist EXCEPT !.y0 = py, !.held = "-"]
               ELSE hist
    /\ commands' = << >>
    /\ pc' = "tick"
    /\ ticks' = IF ticks < MaxTicks THEN ticks + 1 ELSE ticks
    /\ UNCHANGED << animDone, dt, input, px, py, grounded, last, index, frame_time,
                    obstacles, prev, probe >>

Next ==
    \/ BeginTick
    \/ move_player
    \/ player_jump
    \/ player_fall
    \/ ground_detection
    \/ animate_sprite
    \/ apply_deferred

Spec == Init /\ [][Next]_vars

----------------------------------------------------------------------------
(* check_hit as a pure function: one call on inputs drawn from bounded sets *)

Sizes == {2 * k : k \in 0..MaxHalf}

Coords == (0 - MaxCoord)..MaxCoord

\* small boxes at small positions, all sizes and positions
SmallProbes ==
    [hitbox : [x : Sizes, y : Sizes], offset : [x : Coords, y : Coords],
     other_hitbox : [x : Sizes, y : Sizes], other_offset : [x : {0 - 1, 0, 1}, y : {0 - 1, 0, 1}],
     called : {FALSE}, result : {FALSE}]

\* the floor of spawn_map against the Player's box at (0, y)
FloorProbes ==
    {[hitbox |-> spawn_map[1].hitbox, offset |-> spawn_map[1].offset,
      other_hitbox |-> PlayerHitBox, other_offset |-> [x |-> 0, y |-> y],
      called |-> FALSE, result |-> FALSE] : y \in Fixed(0 - 36)..Fixed(4)}

InitHit ==
    /\ InitGame
    /\ probe \in SmallProbes \cup FloorProbes

CallCheckHit ==
    /\ ~probe.called
    /\ probe' = [probe EXCEPT !.called = TRUE,
                               !.result = check_hit(probe.hitbox, probe.offset,
                                                    probe.other_hitbox, probe.other_offset)]
    /\ UNCHANGED << pc, animDone, ticks, dt, input, px, py, jump, grounded, last,
                    index, frame_time, obstacles, commands, prev, hist >>

NextHit == CallCheckHit

SpecHit == InitHit /\ [][NextHit]_vars

----------------------------------------------------------------------------
(* animate_sprite on one animated entity, for every SpriteAnimation: the entity
   is spawned with index 0 and FrameTime(0.) and AnimStep runs once per frame *)

\* SpriteAnimation.len ranges over 1..MaxLen
MaxLen == 7
\* SpriteAnimation.frame_time ranges over 1..MaxFrameTime tenths of a second
MaxFrameTime == 3

AnimProbes ==
    [anim : [len : 1..MaxLen, frame_time : 1..MaxFrameTime],
     index : {0}, frame_time : {0}, steps : {0}]

InitAnim ==
    /\ InitGame
    /\ probe \in AnimProbes

RunAnimStep ==
    /\ probe.steps < MaxTicks
    /\ \E d \in Deltas :
          probe' = [probe EXCEPT
                      !.index = AnimStep(probe.index, probe.frame_time, d, probe.anim).index,
                      !.frame_time = AnimStep(probe.index, probe.frame_time, d, probe.anim).frame_time,
                      !.steps = @ + 1]
    /\ UNCHANGED << pc, animDone, ticks, dt, input, px, py, jump, grounded, last,
                    index, frame_time, obstacles, commands, prev, hist >>

NextAnim == RunAnimStep

SpecAnim == InitAnim /\ [][NextAnim]_vars

----------------------------------------------------------------------------
(* Frames without end: the app runs the Update schedule again and again.  Every
   frame has dt > 0, no Jump edge occurs while the Player carries a Jump and
   the horizontal keys stay released; frames are counted up to MaxTicks, and
   go on beyond it for as long as the Player carries a Jump. *)

\* time.delta_seconds() of these frames: 0.1 s and 0.2 s, the deltas > 0 under
\* which FrameTime stays below a frame time, so that endlessly many frames
\* visit finitely many states
LiveDeltas == {1, 2}

LiveKeys ==
    {k \in Keys : ~k.left /\ ~k.right /\ (jump.present => ~k.just_jump)}

BeginTickLive ==
    /\ jump.present \/ ticks < MaxTicks
    /\ BeginFrame(LiveDeltas, LiveKeys)

NextLive ==
    \/ BeginTickLive
    \/ move_player
    \/ player_jump
    \/ player_fall
    \/ ground_detection
    \/ animate_sprite
    \/ apply_deferred

SpecLive == Init /\ [][NextLive]_vars /\ WF_vars(NextLive)

----------------------------------------------------------------------------
(* Properties *)

Abs(a) == IF a < 0 THEN 0 - a ELSE a

\* Two boxes of full sizes box and obox, centred at pos and opos, overlap
\* strictly on both axes: |dx| < (w1 + w2)/2 and |dy| < (h1 + h2)/2.
Overlaps(box, pos, obox, opos) ==
    /\ 2 * Abs(pos.x - opos.x) < box.x + obox.x
    /\ 2 * Abs(pos.y - opos.y) < box.y + obox.y

InsertJump == [op |-> "insert", energy |-> Fixed(100)]

RemoveJump == [op |-> "remove", energy |-> 0]

FrameDuration == SpriteAnimation.frame_time

\* the step of the frame that is move_player, player_jump, ...
IsMoveStep == pc = "move_player" /\ pc' = "player_jump"

IsJumpStep == pc = "player_jump" /\ pc' = "player_fall"

IsFallStep == pc = "player_fall" /\ pc' = "ground_detection"

IsAnimStep == ~animDone /\ animDone'

IsApplyStep == pc = "apply_deferred" /\ pc' = "tick"

\* C1 (as claimed): while the Player carries a Jump, its energy never increases
\* from one frame to the next: at the end of every frame that began and ended
\* with a Jump on the Player, the energy is <= the energy the frame began with.
C1_EnergyNeverIncreases ==
    (pc = "tick" /\ prev.jump.present /\ jump.present)
        => jump.energy <= prev.jump.energy

\* C2 (as claimed): no Jump is inserted while the Player already carries one:
\* in a frame that began with a Jump on the Player, move_player queues no insert.
C2_NoInsertWhileJumping ==
    jump.present => \A i \in 1..Len(commands) : commands[i].op # "insert"

C4_FallStep ==
    [][ (IsFallStep /\ ~jump.present) =>
            LET cand == [x |-> px, y |-> py - FALL_SPEED * dt]
                blocked == \E i \in DOMAIN obstacles :
                              Overlaps(PlayerHitBox, cand,
                                       obstacles[i].hitbox, obstacles[i].offset)
            IN  /\ blocked => (px' = px /\ py' = py)
                /\ ~blocked =>
                     /\ px' = px
                     /\ py' = py - FALL_SPEED * dt
                     /\ \A i \in DOMAIN obstacles :
                           ~Overlaps(PlayerHitBox, [x |-> px', y |-> py'],
                                     obstacles[i].hitbox, obstacles[i].offset)
      ]_vars

\* C4 witness: player_fall has run with dt > 0 on a Player without Jump whose
\* candidate overlapped the floor, and the position is the one before the fall.
C4_Witness ==
    /\ pc = "ground_detection"
    /\ ~jump.present
    /\ dt > 0
    /\ HitsAny(FallCandidate(px, prev.y, dt), obstacles)
    /\ py = prev.y

\* C5: check_hit(box1, p1, box2, p2) is true iff |p1.x - p2.x| < (w1 + w2)/2 and
\* |p1.y - p2.y| < (h1 + h2)/2; in particular the floor (200 x 5 at (0, -16))
\* and the Player's box (18 x 32 at (0, y)) overlap iff |y + 16| < 18.5.
C5_CheckHitIff ==
    probe.called =>
        /\ probe.result = Overlaps(probe.hitbox, probe.offset,
                                   probe.other_hitbox, probe.other_offset)
        /\ (probe.hitbox = [x |-> 2000, y |-> 50]
              /\ probe.offset = [x |-> 0, y |-> 0 - 160]
              /\ probe.other_hitbox = [x |-> 180, y |-> 320]
              /\ probe.other_offset.x = 0)
             => probe.result = (Abs(probe.other_offset.y + 160) < 185)

\* C5 witness: the floor and the Player's box in exact edge contact
\* (|y + 16| = 18.5), found not to overlap.
C5_Witness ==
    /\ probe.called
    /\ probe.hitbox = [x |-> 2000, y |-> 50]
    /\ probe.other_hitbox = [x |-> 180, y |-> 320]
    /\ Abs(probe.other_offset.y + 160) = 185
    /\ probe.result = FALSE

\* C6 (as claimed): when the timer fires, the accumulated time after the frame
\* is (accumulated_time + dt) minus floor((accumulated_time + dt) /
\* frame_duration) whole frame durations, hence < frame_duration.
C6_RemainderCarried ==
    [][ (IsAnimStep /\ frame_time + dt >= FrameDuration) =>
            /\ frame_time' = (frame_time + dt)
                               - ((frame_time + dt) \div FrameDuration) * FrameDuration
            /\ frame_time' < FrameDuration
      ]_vars

\* C7: one run of animate_sprite with a = accumulated_time + dt: if
\* a >= frame_duration the index becomes (index + floor(a / frame_duration))
\* mod frame_count, else the index is unchanged.
C7_FrameIndexStep ==
    [][ IsAnimStep =>
            LET a == frame_time + dt
            IN  IF a >= FrameDuration
                THEN index' = (index + (a \div FrameDuration)) % 6
                ELSE index' = index
      ]_vars

\* C7 witness: animate_sprite has run in a frame that skipped at least two
\* frames and wrapped the index around frame_count.
C7_Witness ==
    /\ pc # "tick"
    /\ animDone
    /\ prev.frame_time + dt >= 2 * FrameDuration
    /\ prev.index + ((prev.frame_time + dt) \div FrameDuration) >= 6
    /\ index < prev.index

\* C8: after ground_detection, Grounded is true iff the Player's y equals the y
\* at the end of the preceding frame, and the remembered Transform is the
\* current position, whether or not the flag changed.
C8_GroundedIffSameY ==
    pc \in {"apply_deferred", "tick"} =>
        /\ grounded = (py = prev.y)
        /\ last = [x |-> px, y |-> py]

\* C8 witness: after at least two frames, Grounded reads false after having read
\* true at the end of the preceding frame (y values a, a, b).
C8_Witness ==
    /\ pc = "tick"
    /\ ticks >= 2
    /\ prev.grounded
    /\ ~grounded
    /\ py # prev.y

\* C9: one run of player_jump on energy e: jump_power = min(dt * FALL_SPEED * 2,
\* e), y rises by jump_power, the energy falls by jump_power if Jump is held and
\* by 2 * jump_power if not; remove::<Jump>() is queued iff the energy left is
\* <= 0, and the Jump is then gone when the frame ends.
C9_JumpStep ==
    [][ /\ (IsJumpStep /\ jump.present) =>
            LET full == dt * FALL_SPEED * 2
                jump_power == IF full <= jump.energy THEN full ELSE jump.energy
                left == jump.energy - (IF input.jump THEN jump_power
                                       ELSE 2 * jump_power)
            IN  /\ py' = py + jump_power
                /\ jump' = [present |-> TRUE, energy |-> left]
                /\ commands' = IF left <= 0 THEN Append(commands, RemoveJump)
                               ELSE commands
        /\ (IsApplyStep /\ jump.present) => (jump'.present <=> jump.energy > 0)
      ]_vars

\* C9 witness: player_jump has run with Jump released and dt > 0, the energy fell
\* by twice the rise and is still positive.
C9_Witness ==
    /\ pc = "player_fall"
    /\ prev.jump.present
    /\ ~input.jump
    /\ py > prev.y
    /\ jump.energy = prev.jump.energy - 2 * (py - prev.y)
    /\ jump.energy > 0

\* C10: between two frames (the queued commands applied), a Jump on the Player
\* has energy > 0: none with energy <= 0 is left.
C10_NoExhaustedJumpBetweenFrames ==
    pc = "tick" => (jump.present => jump.energy > 0)

\* C10 witness: a frame that began with a Jump on the Player ended without one.
C10_Witness ==
    /\ pc = "tick"
    /\ prev.jump.present
    /\ ~jump.present

\* C11: in a frame without a Jump edge, move_player moves x by -MOVE_SPEED * dt
\* if MoveLeft is held (MoveRight held or not), else by +MOVE_SPEED * dt if
\* MoveRight is held, else not at all; no overlap test gates the movement.
C11_HorizontalStep ==
    [][ (IsMoveStep /\ ~input.just_jump) =>
            px' = (IF input.left THEN px - MOVE_SPEED * dt
                   ELSE IF input.right THEN px + MOVE_SPEED * dt
                   ELSE px)
      ]_vars

\* C11 witness: move_player has run with MoveLeft and MoveRight both held, no
\* Jump edge and dt > 0, and moved the Player, whose box overlaps the floor, to
\* the left.
C11_Witness ==
    /\ pc = "player_jump"
    /\ ~input.just_jump /\ input.left /\ input.right
    /\ dt > 0
    /\ px = prev.x - MOVE_SPEED * dt
    /\ \E i \in DOMAIN obstacles :
          Overlaps(PlayerHitBox, [x |-> px, y |-> py],
                   obstacles[i].hitbox, obstacles[i].offset)

\* C12: the frame index of an animated entity is in [0, frame_count) in every
\* reachable state, for every frame_count > 0 and every sequence of deltas.
C12_FrameIndexInRange ==
    probe.index \in 0..(probe.anim.len - 1)

\* C12 witness: the Player's animation (6 frames of 0.2 s) after a frame that
\* advanced the index from 2 by 4 frames and wrapped it to 0.
C12_Witness ==
    /\ probe.anim = [len |-> 6, frame_time |-> 2]
    /\ probe.steps = 2
    /\ probe.index = 0
    /\ probe.frame_time = 6

\* C13 (as claimed): the Jump that move_player attaches gates the same frame: in
\* every frame exactly one of player_jump and player_fall acts on the Player,
\* player_jump iff the Player carries a Jump once move_player has run (the one
\* it carried before or the one move_player attached), player_fall otherwise.
C13_JumpGatesSameFrame ==
    pc \in {"ground_detection", "apply_deferred"} =>
        LET carries == \/ jump.present
                       \/ \E i \in 1..Len(commands) : commands[i].op = "insert"
        IN  hist.acted = IF carries THEN {"player_jump"} ELSE {"player_fall"}

\* C14 (as claimed): whenever player_fall discards its candidate because of an
\* overlap, the Player's position before the fall overlaps no hitbox (stated
\* for the frames with dt > 0, where the candidate is another position).
C14_BlockedPlayerRestsOutside ==
    (pc = "player_fall" /\ ~jump.present /\ dt > 0
        /\ HitsAny(FallCandidate(px, py, dt), obstacles))
        => \A i \in DOMAIN obstacles :
              ~Overlaps(PlayerHitBox, [x |-> px, y |-> py],
                        obstacles[i].hitbox, obstacles[i].offset)

\* the chained systems one after the other, from the start of a frame to the
\* end of the schedule
ChainSteps ==
    { << "tick", "move_player" >>, << "move_player", "player_jump" >>,
      << "player_jump", "player_fall" >>, << "player_fall", "ground_detection" >>,
      << "ground_detection", "apply_deferred" >>, << "apply_deferred", "tick" >> }

\* C15 (as claimed): within every frame the systems run in the strict total
\* order Movement, Jump, Fall, Ground-Detection, Animation: animate_sprite runs
\* only once ground_detection has completed.
C15_StrictTotalOrder ==
    [][ /\ pc' # pc => << pc, pc' >> \in ChainSteps
        /\ IsAnimStep => pc = "apply_deferred"
      ]_vars

\* C15 (amended): within every frame move_player, player_jump, player_fall and
\* ground_detection run in this strict order, each once; animate_sprite runs
\* exactly once in the frame, at any point of it: before, between or after the
\* chained systems.
C15_ChainOrder ==
    [][ /\ pc' # pc => << pc, pc' >> \in ChainSteps
        /\ IsAnimStep => (pc # "tick" /\ pc' = pc)
        /\ (pc = "tick" /\ pc' # "tick") => ~animDone'
        /\ (pc # "tick" /\ pc' = "tick") => (animDone /\ animDone')
        /\ (animDone /\ pc' # "move_player") => animDone'
      ]_vars

\* C15 witness: animate_sprite has run and advanced the index before
\* move_player, the first system of the chain, has run.
C15_Witness ==
    /\ pc = "move_player"
    /\ animDone
    /\ index # prev.index

\* a frame has just ended in which the Player's Jump was removed, with no Jump
\* edge in that frame; hist.y0 is the y at which this Jump was attached (or
\* last re-attached) with energy 100
JumpJustEnded ==
    /\ pc = "tick"
    /\ prev.jump.present
    /\ ~jump.present
    /\ ~input.just_jump

\* C16: over one jump, from the Jump attached with energy 100 to its removal
\* with no Jump edge in between, the rise of y is at most 100; it is exactly 100
\* when Jump was held in every frame of the jump and at least 50 when it was
\* held in none.
C16_JumpRise ==
    JumpJustEnded =>
        /\ py - hist.y0 <= 1000
        /\ hist.held = "all" => py - hist.y0 = 1000
        /\ hist.held = "none" => py - hist.y0 >= 500

\* C16 witness: a jump during which Jump was never held has ended, having risen
\* by more than 50 and less than 100.
C16_Witness ==
    /\ JumpJustEnded
    /\ hist.held = "none"
    /\ py - hist.y0 > 500
    /\ py - hist.y0 < 1000

C16_HeldJumpSeen ==
    /\ JumpJustEnded
    /\ hist.held = "all"
    /\ py - hist.y0 = 1000

\* C17 (as claimed): from spawn, while the Player's x is within the floor's
\* horizontal reach (|x| < 109), the Player's y is never below its spawn
\* height 0.
C17_NeverBelowFloor ==
    (Abs(px) < 1090 /\ Abs(prev.x) < 1090) => py >= 0

\* C18: with dt > 0 in every frame and no new Jump edge, a Jump on the Player is
\* eventually removed, Jump held or released, and the Player is then without
\* Jump between two frames, where player_fall's query matches again.
C18_EveryJumpEnds ==
    jump.present ~> (~jump.present /\ pc = "tick")

\* C18 witness: a jump of several frames, Jump held in some and released in
\* others, has ended.
C18_Witness ==
    /\ pc = "tick"
    /\ prev.jump.present
    /\ prev.jump.energy < 1000
    /\ ~jump.present
    /\ hist.held = "mixed"

IsGroundStep == pc = "ground_detection" /\ pc' = "apply_deferred"

\* C19: move_player never changes the Player's y; player_jump and player_fall
\* never change its x; ground_detection changes only Grounded and its
\* remembered position; animate_sprite changes only the frame index and the
\* accumulated time; no system changes the position or hitbox of an obstacle.
C19_FrameConditions ==
    [][ /\ IsMoveStep => UNCHANGED << py, jump, grounded, last, index, frame_time >>
        /\ (IsJumpStep \/ IsFallStep) =>
               UNCHANGED << px, grounded, last, index, frame_time >>
        /\ IsGroundStep =>
               UNCHANGED << px, py, jump, index, frame_time, commands >>
        /\ IsAnimStep =>
               UNCHANGED << px, py, jump, grounded, last, commands >>
        /\ obstacles' = obstacles
        /\ obstacles = spawn_map
      ]_vars

\* C19 witness: a frame with dt > 0 in which move_player moved x, player_fall
\* lowered y, animate_sprite advanced the index and ground_detection cleared
\* Grounded, the floor being where spawn_map put it.
C19_Witness ==
    /\ pc = "apply_deferred"
    /\ animDone
    /\ px # prev.x
    /\ py < prev.y
    /\ index # prev.index
    /\ prev.grounded /\ ~grounded
    /\ obstacles = spawn_map

====
